---- MODULE Spec2Model ----
(***************************************************************************)
(* A model of the RAG_QA repository: the JSON retriever (retrieve_info),   *)
(* the semantic parser's fallback (parse_with_llm), the evaluator's pure   *)
(* metric functions and the evaluation loop (evaluate_accuracy.main).      *)
(*                                                                         *)
(* Conventions                                                             *)
(*  - A Python str that the code inspects character by character (regex,   *)
(*    lower(), "in") is a sequence of one-character strings.               *)
(*  - A Python float is a fixed-point integer: value * NumScale. The       *)
(*    sample texts carry at most two fractional digits, so the arithmetic  *)
(*    the code does on them (comparison, "* 1024") is exact.               *)
(*  - An optional value is None (<<>>) or Some(x) (<<x>>).                 *)
(*  - A dict whose keys may be missing carries the set "has" of the keys   *)
(*    that are present.                                                    *)
(*  - A call that raises yields a record with kind/status "raise" and the  *)
(*    exception's name in err.                                             *)
(***************************************************************************)
EXTENDS Integers, Sequences, FiniteSets, TLC

VARIABLES
    pc,          \* position of the program under test
    catalog,     \* load_data(): the plan catalog
    raw,         \* the parser collaborator's raw answer (parse_with_llm)
    parsed,      \* the structured query handed to retrieve_info
    candidates,  \* retrieve_info's local list, as it stands at the return
    result,      \* retrieve_info's outcome
    ev,          \* the evaluator's inputs and verdicts
    hs           \* the evaluation loop's state (evaluate_accuracy.main)

vars == <<pc, catalog, raw, parsed, candidates, result, ev, hs>>

-----------------------------------------------------------------------------
(* Optional values and text helpers                                        *)

None == <<>>

Some(x) == <<x>>

IsNone(o) == Len(o) = 0

Val(o) == o[1]

UpperAlpha ==
    <<"A","B","C","D","E","F","G","H","I","J","K","L","M",
      "N","O","P","Q","R","S","T","U","V","W","X","Y","Z">>

LowerAlpha ==
    <<"a","b","c","d","e","f","g","h","i","j","k","l","m",
      "n","o","p","q","r","s","t","u","v","w","x","y","z">>

Digits == <<"0","1","2","3","4","5","6","7","8","9">>

IsDigit(c) == \E i \in 1..10 : Digits[i] = c

DigitVal(c) == (CHOOSE i \in 1..10 : Digits[i] = c) - 1

IsSpace(c) == c \in {" ", "\t", "\n"}

\* str.lower() on one character
LowerChar(c) ==
    IF \E i \in 1..26 : UpperAlpha[i] = c
    THEN LowerAlpha[CHOOSE i \in 1..26 : UpperAlpha[i] = c]
    ELSE c

\* str.lower()
Lower(s) == [i \in 1..Len(s) |-> LowerChar(s[i])]

\* the slice s[a..b] (1-based, inclusive; clamped to the text like a Python
\* slice, empty when a > b)
Slice(s, a, b) ==
    LET hi == IF b > Len(s) THEN Len(s) ELSE b
    IN IF a < 1 \/ a > hi THEN <<>> ELSE SubSeq(s, a, hi)

\* Python's "needle in hay" on str
IsSubstring(needle, hay) ==
    \E k \in 0..(Len(hay) - Len(needle)) :
        \A i \in 1..Len(needle) : hay[k + i] = needle[i]

\* str.strip()
RECURSIVE LStrip(_)
LStrip(s) ==
    IF Len(s) > 0 /\ IsSpace(s[1]) THEN LStrip(Tail(s)) ELSE s

RECURSIVE RStrip(_)
RStrip(s) ==
    IF Len(s) > 0 /\ IsSpace(s[Len(s)]) THEN RStrip(SubSeq(s, 1, Len(s) - 1)) ELSE s

Strip(s) == RStrip(LStrip(s))

\* " ".join(list of str)
RECURSIVE JoinSpace(_)
JoinSpace(ss) ==
    IF Len(ss) = 0 THEN <<>>
    ELSE IF Len(ss) = 1 THEN ss[1]
    ELSE ss[1] \o <<" ">> \o JoinSpace(Tail(ss))

-----------------------------------------------------------------------------
(* float(): fixed-point, NumScale units per 1.0                            *)

NumScale == 100

\* the length of the longest prefix of s made of characters satisfying the
\* class [0-9.]
RECURSIVE NumRunLen(_)
NumRunLen(s) ==
    IF Len(s) > 0 /\ (IsDigit(s[1]) \/ s[1] = ".") THEN 1 + NumRunLen(Tail(s)) ELSE 0

RECURSIVE SpaceRunLen(_)
SpaceRunLen(s) ==
    IF Len(s) > 0 /\ IsSpace(s[1]) THEN 1 + SpaceRunLen(Tail(s)) ELSE 0

RECURSIVE IntOfDigits(_)
IntOfDigits(s) ==
    IF Len(s) = 0 THEN 0
    ELSE 10 * IntOfDigits(SubSeq(s, 1, Len(s) - 1)) + DigitVal(s[Len(s)])

DotCount(s) == Cardinality({i \in 1..Len(s) : s[i] = "."})

DigitCount(s) == Cardinality({i \in 1..Len(s) : IsDigit(s[i])})

\* float(str): surrounding whitespace is ignored; digits with at most one
\* "." and at least one digit convert, anything else raises ValueError.
\* (Signs, exponents, "inf"/"nan" and "_" are outside the sample texts.)
IsFloatText(t) ==
    /\ Len(t) > 0
    /\ \A i \in 1..Len(t) : IsDigit(t[i]) \/ t[i] = "."
    /\ DotCount(t) <= 1
    /\ DigitCount(t) >= 1

\* the first two decimals, in 1/NumScale
FracOf(frac) ==
    10 * (IF Len(frac) >= 1 THEN DigitVal(frac[1]) ELSE 0)
    + (IF Len(frac) >= 2 THEN DigitVal(frac[2]) ELSE 0)

FixedAt(t, dot) ==
    IntOfDigits(Slice(t, 1, dot - 1)) * NumScale + FracOf(Slice(t, dot + 1, Len(t)))

FloatOfStripped(t) ==
    IF IsFloatText(t)
    THEN [kind |-> "num",
          val |-> FixedAt(t, IF DotCount(t) = 1 THEN CHOOSE i \in 1..Len(t) : t[i] = "."
                             ELSE Len(t) + 1),
          err |-> ""]
    ELSE [kind |-> "raise", val |-> 0, err |-> "ValueError"]

ParseFloat(s) == FloatOfStripped(Strip(s))

-----------------------------------------------------------------------------
(* json_retriever.parse_storage_to_gb                                      *)

TBFactor == 1024

\* lines 21-24: float(m.group(1)) and the unit
StorageOfFloat(f, u) ==
    IF f.kind = "raise" THEN f
    ELSE [kind |-> "num",
          val |-> IF u = <<"t","b">> THEN f.val * TBFactor ELSE f.val,
          err |-> ""]

\* lines 17-19: the match of ([0-9.]+)\s*(TB|GB) at the start of s, n the
\* length of group 1 and u the two characters after the whitespace
StorageOfMatch(s, n, u) ==
    IF ~(n >= 1 /\ u \in {<<"t","b">>, <<"g","b">>})
    THEN [kind |-> "none", val |-> 0, err |-> ""]
    ELSE StorageOfFloat(ParseFloat(Slice(s, 1, n)), u)

UnitAt(s, a) == Lower(Slice(s, a + 1, a + 2))

StorageAfterNumber(s, n) ==
    StorageOfMatch(s, n, UnitAt(s, n + SpaceRunLen(Slice(s, n + 1, Len(s)))))

\* storage_opt: None (the key is missing) or Some(text)
parse_storage_to_gb(storage_opt) ==
    IF IsNone(storage_opt) \/ Len(Val(storage_opt)) = 0
    THEN [kind |-> "none", val |-> 0, err |-> ""]
    ELSE StorageAfterNumber(Val(storage_opt), NumRunLen(Val(storage_opt)))

-----------------------------------------------------------------------------
(* json_retriever.retrieve_info                                            *)

\* bool(platform), bool(cycle): None and "" are falsy
TruthyStr(o) == ~IsNone(o) /\ Val(o) # ""

\* bool(feature), the feature being a text
TruthyText(o) == ~IsNone(o) /\ Len(Val(o)) > 0

\* parsed.get("Price", {}): a missing key reads as the empty dict
price_cond_of(q) ==
    IF q.Price.tag = "missing"
    THEN [tag |-> "dict", empty |-> TRUE, min |-> None, max |-> None, cycle |-> None]
    ELSE q.Price

\* parsed.get("Storage", {})
storage_cond_of(q) ==
    IF q.Storage.tag = "missing"
    THEN [tag |-> "dict", empty |-> TRUE, min |-> None, max |-> None]
    ELSE q.Storage

\* bool(cond): None and {} are falsy
TruthyCond(c) == c.tag = "dict" /\ ~c.empty

\* a faulty variant of StorageSkips: a plan of unknown storage passes the bounds
StorageSkipsKnownOnly(st, sc) ==
    /\ TruthyCond(sc)
    /\ st.kind # "none"
    /\ \/ ~IsNone(sc.min) /\ st.val < Val(sc.min)
       \/ ~IsNone(sc.max) /\ st.val > Val(sc.max)

\* lines 47-53: TRUE when the plan is dropped by the storage stage
StorageSkips(st, sc) ==
    /\ TruthyCond(sc)
    /\ \/ ~IsNone(sc.min) /\ (st.kind = "none" \/ st.val < Val(sc.min))
       \/ ~IsNone(sc.max) /\ (st.kind = "none" \/ st.val > Val(sc.max))

\* lines 56-59: TRUE when the plan is dropped by the feature stage
FeatureSkips(plan, feature) ==
    /\ TruthyText(feature)
    /\ LET feats == IF "Features" \in plan.has THEN plan.Features ELSE <<>>
           text == Lower(JoinSpace(feats))
       IN ~IsSubstring(Lower(Val(feature)), text)

\* lines 67-74: TRUE when the option is kept (price is float(opt["Price"]))
OptionPasses(opt, price, pcnd) ==
    /\ ~(TruthyStr(pcnd.cycle) /\ opt.PlanType # Val(pcnd.cycle))
    /\ ~(~IsNone(pcnd.min) /\ price < Val(pcnd.min))
    /\ ~(~IsNone(pcnd.max) /\ price > Val(pcnd.max))

\* lines 62-76: the loop over the plan's pricing options; valid_pricing in
\* acc. float() raises on a price that does not parse, and price_cond.get
\* raises AttributeError when Price is null.
RECURSIVE PriceLoop(_, _, _)
\* one pass of the loop body, f being float(opt["Price"])
PriceLoopStep(opts, pcnd, acc, f) ==
    IF f.kind = "raise" THEN [kind |-> "raise", err |-> f.err, valid |-> <<>>]
    ELSE IF pcnd.tag = "null"
    THEN [kind |-> "raise", err |-> "AttributeError", valid |-> <<>>]
    ELSE PriceLoop(Tail(opts), pcnd,
                   IF OptionPasses(opts[1], f.val, pcnd) THEN Append(acc, opts[1]) ELSE acc)

PriceLoop(opts, pcnd, acc) ==
    IF Len(opts) = 0 THEN [kind |-> "ok", err |-> "", valid |-> acc]
    ELSE PriceLoopStep(opts, pcnd, acc, ParseFloat(opts[1].Price))

PriceOf(opt) == ParseFloat(opt.Price).val

\* a faulty variant of MinByPrice: the first listed option, whatever its price
MinByPriceFirstListed(opts, best) == best

\* line 83: min(valid_pricing, key=price) from the running best; min keeps
\* the first of equal keys
RECURSIVE MinByPrice(_, _)
MinByPrice(opts, best) ==
    IF Len(opts) = 0 THEN best
    ELSE MinByPrice(Tail(opts), IF PriceOf(opts[1]) < PriceOf(best) THEN opts[1] ELSE best)

\* lines 44-87: one iteration of the inner loop. kind is "skip" (continue),
\* "cand" (appended, with the representative option) or "raise".
NoBest == [Price |-> <<>>, PlanType |-> ""]

\* st is parse_storage_to_gb(plan.get("Storage")), pcnd is price_cond and pl
\* the outcome of the loop over the pricing options
PlanVerdict(p, plan, q, st, pcnd, pl) ==
    IF st.kind = "raise" THEN [kind |-> "raise", err |-> st.err, best |-> NoBest]
    ELSE IF StorageSkips(st, storage_cond_of(q)) THEN [kind |-> "skip", err |-> "", best |-> NoBest]
    ELSE IF FeatureSkips(plan, q.Feature) THEN [kind |-> "skip", err |-> "", best |-> NoBest]
    ELSE IF pl.kind = "raise" THEN [kind |-> "raise", err |-> pl.err, best |-> NoBest]
    ELSE IF TruthyCond(pcnd) /\ Len(pl.valid) = 0 THEN [kind |-> "skip", err |-> "", best |-> NoBest]
    ELSE IF Len(pl.valid) = 0
    THEN \* line 85: plan["PricingOptions"][0] of a missing or empty list
         [kind |-> "raise",
          err |-> IF "PricingOptions" \in plan.has THEN "IndexError" ELSE "KeyError",
          best |-> NoBest]
    ELSE IF "Platform" \notin p.has THEN [kind |-> "raise", err |-> "KeyError", best |-> NoBest]
    ELSE [kind |-> "cand", err |-> "", best |-> MinByPrice(Tail(pl.valid), pl.valid[1])]

PlanOutcome(p, plan, q) ==
    PlanVerdict(p, plan, q,
                parse_storage_to_gb(IF "Storage" \in plan.has THEN Some(plan.Storage) ELSE None),
                price_cond_of(q),
                PriceLoop(IF "PricingOptions" \in plan.has THEN plan.PricingOptions ELSE <<>>,
                          price_cond_of(q), <<>>))

\* lines 43-87: the nested loops, in traversal order; platforms is a sequence
\* of indices into data (the records the platform stage kept). A candidate
\* holds the positions (pi, pj) of its platform and plan records: the tuple
\* of line 87 holds the objects themselves.
RECURSIVE Scan(_, _, _, _, _)
\* the end of one iteration of the inner loop, o its outcome
ScanStep(data, platforms, j, q, acc, o) ==
    IF o.kind = "raise" THEN [kind |-> "raise", err |-> o.err, cands |-> <<>>]
    ELSE Scan(data, platforms, j + 1, q,
              IF o.kind = "cand"
              THEN Append(acc, [pi |-> platforms[1], pj |-> j,
                                Platform |-> data[platforms[1]].Platform, best |-> o.best])
              ELSE acc)

Scan(data, platforms, j, q, acc) ==
    IF Len(platforms) = 0 THEN [kind |-> "ok", err |-> "", cands |-> acc]
    ELSE IF "Plans" \notin data[platforms[1]].has
    THEN [kind |-> "raise", err |-> "KeyError", cands |-> <<>>]
    ELSE IF j > Len(data[platforms[1]].Plans) THEN Scan(data, Tail(platforms), 1, q, acc)
    ELSE ScanStep(data, platforms, j, q, acc,
                  PlanOutcome(data[platforms[1]], data[platforms[1]].Plans[j], q))

\* line 93: list.sort(key=price) is stable: x goes after every element whose
\* price is not greater
RECURSIVE SortInsert(_, _)
SortInsert(sorted, x) ==
    IF Len(sorted) = 0 THEN <<x>>
    ELSE IF PriceOf(x.best) < PriceOf(sorted[1].best) THEN <<x>> \o sorted
    ELSE <<sorted[1]>> \o SortInsert(Tail(sorted), x)

RECURSIVE SortByPrice(_, _)
SortByPrice(cands, sorted) ==
    IF Len(cands) = 0 THEN sorted
    ELSE SortByPrice(Tail(cands), SortInsert(sorted, cands[1]))

NoResult ==
    [Platform |-> "", PlanName |-> "", Price |-> 0, PlanType |-> "",
     Storage |-> <<>>, FeatureMatch |-> None]

\* lines 36-39: the platform stage; p["Platform"] raises KeyError on a record
\* without the key
PlatformStage(data, q) ==
    IF TruthyStr(q.Platform)
    THEN IF \E i \in 1..Len(data) : "Platform" \notin data[i].has
         THEN [kind |-> "raise", err |-> "KeyError", platforms |-> <<>>]
         ELSE [kind |-> "ok", err |-> "",
               platforms |-> SelectSeq([i \in 1..Len(data) |-> i],
                                       LAMBDA i : data[i].Platform = Val(q.Platform))]
    ELSE [kind |-> "ok", err |-> "", platforms |-> [i \in 1..Len(data) |-> i]]

\* lines 95-103: the result dict of the first candidate c, plan its plan
ResultOfFirst(q, sorted, c, plan) ==
    IF "PlanName" \notin plan.has \/ "Storage" \notin plan.has
    THEN [status |-> "raise", err |-> "KeyError", cands |-> sorted, res |-> NoResult]
    ELSE [status |-> "ok", err |-> "", cands |-> sorted,
          res |-> [Platform |-> c.Platform,
                   PlanName |-> plan.PlanName,
                   Price |-> PriceOf(c.best),
                   PlanType |-> c.best.PlanType,
                   Storage |-> plan.Storage,
                   FeatureMatch |-> q.Feature]]

ResultOfSorted(data, q, sorted) ==
    ResultOfFirst(q, sorted, sorted[1], data[sorted[1].pi].Plans[sorted[1].pj])

\* lines 89-103, sc the outcome of the loops
ResultOfScan(data, q, sc) ==
    IF sc.kind = "raise"
    THEN [status |-> "raise", err |-> sc.err, cands |-> <<>>, res |-> NoResult]
    ELSE IF Len(sc.cands) = 0
    THEN [status |-> "none", err |-> "", cands |-> <<>>, res |-> NoResult]
    ELSE ResultOfSorted(data, q, SortByPrice(sc.cands, <<>>))

ScanFrom(data, q, ps) ==
    IF ps.kind = "ok" THEN Scan(data, ps.platforms, 1, q, <<>>)
    ELSE [kind |-> "raise", err |-> ps.err, cands |-> <<>>]

\* retrieve_info(parsed) on the catalog data: status is "ok" (a result dict),
\* "none" (None) or "raise"
retrieve_info(data, q) ==
    IF q.kind # "dict"
    THEN \* parsed.get on a list, a str, a number or None
         [status |-> "raise", err |-> "AttributeError", cands |-> <<>>, res |-> NoResult]
    ELSE ResultOfScan(data, q, ScanFrom(data, q, PlatformStage(data, q)))

-----------------------------------------------------------------------------
(* The inputs: catalogs and structured queries                             *)

MaxPlans == 2       \* plan records in a catalog, over all its platforms

\* a catalog holds at most one platform record per name, in this order
PlatformNames == <<"GoogleDrive", "Dropbox">>

PlanNames == <<"Plan A", "Plan B", "Plan C", "Plan D">>

T_100GB == <<"1","0","0","G","B">>

T_2TB == <<"2"," ","T","B">>

T_Unknown == <<"t","w","o"," ","t","e","r","a","b","y","t","e","s">>

T_199 == <<"1",".","9","9">>

T_999 == <<"9",".","9","9">>

F_AI == <<"A","I">>

F_PDF == <<"P","D","F"," ","e","d","i","t">>

Opt(price, cycle) == [Price |-> price, PlanType |-> cycle]

PlanKeys == {"PlanName", "Storage", "Features", "PricingOptions"}

Plan(storage, feats, opts) ==
    [has |-> PlanKeys, PlanName |-> "", Storage |-> storage,
     Features |-> feats, PricingOptions |-> opts]

BaseFeatures == <<F_AI, F_PDF>>

\* Well-formed plans: the storage texts with a cheap or a dear monthly
\* price, a plan without features, and the option lists that exercise the
\* price stage (no option, a first option that is not the cheapest, a
\* cheapest option on the other cycle).
PlanPool ==
    { Plan(T_100GB, BaseFeatures, <<Opt(T_199, "Monthly")>>),
      Plan(T_100GB, BaseFeatures, <<Opt(T_999, "Monthly")>>),
      Plan(T_2TB, BaseFeatures, <<Opt(T_999, "Monthly")>>),
      Plan(T_Unknown, BaseFeatures, <<Opt(T_199, "Monthly")>>),
      Plan(T_100GB, <<>>, <<Opt(T_199, "Monthly")>>),
      Plan(T_100GB, BaseFeatures, <<>>),
      Plan(T_100GB, BaseFeatures, <<Opt(T_999, "Monthly"), Opt(T_199, "Monthly")>>),
      Plan(T_100GB, BaseFeatures, <<Opt(T_999, "Monthly"), Opt(T_199, "Annual")>>) }

\* the sequences of np plan lists that hold at most budget plans in all
RECURSIVE PlanLists(_, _, _)
PlanLists(pool, np, budget) ==
    IF np = 0 THEN {<<>>}
    ELSE UNION { { Append(c, s) : c \in PlanLists(pool, np - 1, budget - k),
                                  s \in [1..k -> pool] } : k \in 0..budget }

RECURSIVE PlansBefore(_, _)
PlansBefore(lists, i) ==
    IF i <= 1 THEN 0 ELSE Len(lists[i - 1]) + PlansBefore(lists, i - 1)

\* the catalog of the plan lists: platforms named by position, plans named
\* by traversal position
MkCatalog(lists) ==
    [i \in 1..Len(lists) |->
        [has |-> {"Platform", "Plans"},
         Platform |-> PlatformNames[i],
         Plans |-> [j \in 1..Len(lists[i]) |->
                      [lists[i][j] EXCEPT !.PlanName = PlanNames[PlansBefore(lists, i) + j]]]]]

CatalogsOver(pool) ==
    { MkCatalog(l) : l \in UNION { PlanLists(pool, np, MaxPlans) : np \in 0..Len(PlatformNames) } }

Catalogs == CatalogsOver(PlanPool)

PriceCond(mn, mx, cy) ==
    [tag |-> "dict", empty |-> FALSE, min |-> mn, max |-> mx, cycle |-> cy]

EmptyPriceCond ==
    [tag |-> "dict", empty |-> TRUE, min |-> None, max |-> None, cycle |-> None]

StorageCond(mn, mx) == [tag |-> "dict", empty |-> FALSE, min |-> mn, max |-> mx]

EmptyStorageCond == [tag |-> "dict", empty |-> TRUE, min |-> None, max |-> None]

Query(pl, pr, st, ft) ==
    [kind |-> "dict", Platform |-> pl, Price |-> pr, Storage |-> st, Feature |-> ft]

\* semantic_parser.py lines 70-75: the all-absent query
AllAbsentQuery ==
    Query(None, PriceCond(None, None, None), StorageCond(None, None), None)

QPrices ==
    { EmptyPriceCond,
      PriceCond(None, None, None),
      PriceCond(None, Some(5 * NumScale), None),
      PriceCond(Some(5 * NumScale), None, None),
      PriceCond(None, None, Some("Annual")) }

QStorages ==
    { EmptyStorageCond,
      StorageCond(Some(1024 * NumScale), None),
      StorageCond(None, Some(1024 * NumScale)) }

QFeatures == { None, Some(<<"P","d","f">>) }

QPlatforms == { None, Some("Dropbox") }

\* the number of fields of the query that differ from the empty query
FieldsSet(q) ==
    (IF IsNone(q.Platform) THEN 0 ELSE 1)
    + (IF q.Price = EmptyPriceCond THEN 0 ELSE 1)
    + (IF q.Storage = EmptyStorageCond THEN 0 ELSE 1)
    + (IF IsNone(q.Feature) THEN 0 ELSE 1)

\* the queries with at most two fields set, the all-absent query of the
\* parser's fallback, and one query that sets every field
Queries ==
    { q \in { Query(pl, pr, st, ft) :
                pl \in QPlatforms, pr \in QPrices, st \in QStorages, ft \in QFeatures } :
        FieldsSet(q) <= 2 }
    \cup { AllAbsentQuery,
           Query(Some("Dropbox"), PriceCond(None, Some(5 * NumScale), Some("Monthly")),
                 StorageCond(None, Some(1024 * NumScale)), Some(<<"a","i">>)) }

-----------------------------------------------------------------------------
(* The retriever on its own: a catalog and a query, then retrieve_info     *)

NoOutcome == [status |-> "idle", err |-> "", res |-> NoResult]

IdleEv ==
    [expected |-> <<>>, retrieved |-> <<>>, answer |-> <<>>,
     done_match |-> FALSE, matches |-> FALSE,
     done_detect |-> FALSE, hallucinated |-> FALSE]

IdleHs == [phase |-> "idle"]

IdleRaw == [json |-> FALSE, value |-> <<>>]

Init ==
    /\ pc = "start"
    /\ catalog \in Catalogs
    /\ parsed \in Queries
    /\ raw = IdleRaw
    /\ candidates = <<>>
    /\ result = NoOutcome
    /\ ev = IdleEv
    /\ hs = IdleHs

\* retrieve_info(parsed)
Retrieve ==
    /\ pc = "start"
    /\ \E r \in {retrieve_info(catalog, parsed)} :
          /\ result' = [status |-> r.status, err |-> r.err, res |-> r.res]
          /\ candidates' = r.cands
    /\ pc' = "done"
    /\ UNCHANGED <<catalog, raw, parsed, ev, hs>>

Next == Retrieve

Spec == Init /\ [][Next]_vars

-----------------------------------------------------------------------------
(* What the specification says of the filter, stated on the inputs alone   *)

\* the gigabytes a sample storage text stands for (None: unknown)
ExpectedGB(text) ==
    CASE text = T_100GB -> Some(100)
      [] text = T_2TB -> Some(2048)
      [] OTHER -> None

\* the price a sample price text stands for, in 1/NumScale
ExpectedPrice(text) ==
    CASE text = T_199 -> 199
      [] text = T_999 -> 999
      [] OTHER -> -1

\* the positions <<platform, plan>> of the catalog's plan records
Positions ==
    UNION { { <<i, j>> : j \in 1..Len(catalog[i].Plans) } : i \in 1..Len(catalog) }

PlanAt(pos) == catalog[pos[1]].Plans[pos[2]]

PlatformSet == ~IsNone(parsed.Platform) /\ Val(parsed.Platform) # ""

StorageMin == IF parsed.Storage.tag = "dict" THEN parsed.Storage.min ELSE None

StorageMax == IF parsed.Storage.tag = "dict" THEN parsed.Storage.max ELSE None

PriceMin == IF parsed.Price.tag = "dict" THEN parsed.Price.min ELSE None

PriceMax == IF parsed.Price.tag = "dict" THEN parsed.Price.max ELSE None

PriceCycle == IF parsed.Price.tag = "dict" THEN parsed.Price.cycle ELSE None

FeatureSet == ~IsNone(parsed.Feature) /\ Len(Val(parsed.Feature)) > 0

PlatformHolds(pos) ==
    PlatformSet => catalog[pos[1]].Platform = Val(parsed.Platform)

StorageHolds(pos) ==
    LET gb == ExpectedGB(PlanAt(pos).Storage)
    IN /\ ~IsNone(StorageMin) => ~IsNone(gb) /\ Val(gb) * NumScale >= Val(StorageMin)
       /\ ~IsNone(StorageMax) => ~IsNone(gb) /\ Val(gb) * NumScale <= Val(StorageMax)

FeatureHolds(pos) ==
    FeatureSet =>
        IsSubstring(Lower(Val(parsed.Feature)), Lower(JoinSpace(PlanAt(pos).Features)))

OptionHolds(opt) ==
    /\ ~IsNone(PriceCycle) => opt.PlanType = Val(PriceCycle)
    /\ ~IsNone(PriceMin) => ExpectedPrice(opt.Price) >= Val(PriceMin)
    /\ ~IsNone(PriceMax) => ExpectedPrice(opt.Price) <= Val(PriceMax)

\* the options of the plan that pass the price stage
PassingOptions(pos) ==
    { k \in 1..Len(PlanAt(pos).PricingOptions) : OptionHolds(PlanAt(pos).PricingOptions[k]) }

\* the plans that survive the four stages with a representative option
Triples ==
    { pos \in Positions :
        /\ PlatformHolds(pos) /\ StorageHolds(pos) /\ FeatureHolds(pos)
        /\ PassingOptions(pos) # {} }

\* the representative price of a surviving plan
RepPrice(pos) ==
    LET prices == { ExpectedPrice(PlanAt(pos).PricingOptions[k].Price) : k \in PassingOptions(pos) }
    IN CHOOSE m \in prices : \A x \in prices : m <= x

Before(a, b) == a[1] < b[1] \/ (a[1] = b[1] /\ a[2] < b[2])

\* the result dict names the plan at pos (plan names are unique in a catalog)
ResultIs(pos) ==
    /\ result.res.Platform = catalog[pos[1]].Platform
    /\ result.res.PlanName = PlanAt(pos).PlanName

\* C1: retrieve_info returns the surviving triple of minimal representative
\* price, the first in catalog traversal order among those of that price,
\* and returns None exactly when no triple survives.
C1_MinimalFirstOrNone ==
    pc = "done" =>
        IF Triples = {} THEN result.status = "none"
        ELSE /\ result.status = "ok"
             /\ \E w \in Triples :
                  /\ ResultIs(w)
                  /\ result.res.Price = RepPrice(w)
                  /\ \A t \in Triples :
                       /\ RepPrice(w) <= RepPrice(t)
                       /\ RepPrice(t) = RepPrice(w) => (t = w \/ Before(w, t))

\* C1, whenever retrieve_info returns at all
C1_MinimalFirstOrNoneOnReturn ==
    (pc = "done" /\ result.status # "raise") => C1_MinimalFirstOrNone

\* every raise of the well-formed inputs is the IndexError of line 85: an
\* empty query Price and a plan with no pricing option at the price stage
C1_OnlyRaise ==
    (pc = "done" /\ result.status = "raise") =>
        /\ result.err = "IndexError"
        /\ ~TruthyCond(price_cond_of(parsed))
        /\ \E pos \in Positions :
             /\ Len(PlanAt(pos).PricingOptions) = 0
             /\ PlatformHolds(pos) /\ StorageHolds(pos) /\ FeatureHolds(pos)

\* the query supplies no price condition: min, max and cycle are all absent
NoPriceCondition == IsNone(PriceMin) /\ IsNone(PriceMax) /\ IsNone(PriceCycle)

\* C2: the representative option of every plan kept by the filter is a
\* minimum-price option among those passing the price stage; with no price
\* condition it is the plan's cheapest option overall.
C2_RepresentativeIsCheapest ==
    (pc = "done" /\ result.status # "raise") =>
        \A c \in 1..Len(candidates) :
            LET pos == <<candidates[c].pi, candidates[c].pj>>
                best == candidates[c].best
                opts == PlanAt(pos).PricingOptions
            IN /\ \E k \in PassingOptions(pos) : opts[k] = best
               /\ \A k \in PassingOptions(pos) :
                    ExpectedPrice(best.Price) <= ExpectedPrice(opts[k].Price)
               /\ NoPriceCondition =>
                    \A k \in 1..Len(opts) :
                        ExpectedPrice(best.Price) <= ExpectedPrice(opts[k].Price)

\* C2's case: no price condition, and a kept plan whose first listed option
\* is not its cheapest
C2_Witness ==
    /\ pc = "done" /\ result.status = "ok"
    /\ NoPriceCondition
    /\ \E c \in 1..Len(candidates) :
         LET opts == PlanAt(<<candidates[c].pi, candidates[c].pj>>).PricingOptions
         IN /\ Len(opts) = 2
            /\ ExpectedPrice(opts[2].Price) < ExpectedPrice(opts[1].Price)
            /\ candidates[c].best = opts[2]

\* C3: a returned candidate satisfies every condition the query sets, and
\* its price and cycle are those of one of its plan's options that passes
\* the price stage.
C3_ResultSatisfiesQuery ==
    (pc = "done" /\ result.status = "ok") =>
        \E pos \in Positions :
            /\ ResultIs(pos)
            /\ PlatformHolds(pos) /\ StorageHolds(pos) /\ FeatureHolds(pos)
            /\ \E k \in PassingOptions(pos) :
                 /\ ExpectedPrice(PlanAt(pos).PricingOptions[k].Price) = result.res.Price
                 /\ PlanAt(pos).PricingOptions[k].PlanType = result.res.PlanType

\* C3's case: the 100 GB plan at 1.99 and the 2 TB plan at 9.99 under
\* Storage.min = 1024; the dearer plan is returned
C3_Witness ==
    /\ pc = "done" /\ result.status = "ok"
    /\ Len(catalog) = 2
    /\ Len(catalog[1].Plans) = 1 /\ Len(catalog[2].Plans) = 1
    /\ catalog[1].Plans[1].Storage = T_100GB
    /\ catalog[1].Plans[1].PricingOptions = <<Opt(T_199, "Monthly")>>
    /\ catalog[2].Plans[1].Storage = T_2TB
    /\ catalog[2].Plans[1].PricingOptions = <<Opt(T_999, "Monthly")>>
    /\ parsed = Query(None, EmptyPriceCond, StorageCond(Some(1024 * NumScale), None), None)
    /\ result.res.PlanName = "Plan B"
    /\ result.res.Price = 999

-----------------------------------------------------------------------------
(* The retriever on catalogs with missing fields and unparsable numbers    *)

T_NA == <<"N","/","A">>

T_BadNumber == <<"1",".","2",".","3"," ","G","B">>

\* a well-formed cheap plan and a well-formed dear plan, the plans that lack
\* a required field, and the plans whose price or storage is no number
MalformedPool ==
    { Plan(T_100GB, BaseFeatures, <<Opt(T_199, "Monthly")>>),
      Plan(T_2TB, BaseFeatures, <<Opt(T_999, "Monthly")>>),
      [Plan(T_100GB, BaseFeatures, <<Opt(T_999, "Monthly")>>)
          EXCEPT !.has = PlanKeys \ {"PlanName"}],
      [Plan(T_100GB, BaseFeatures, <<>>)
          EXCEPT !.has = PlanKeys \ {"PricingOptions"}],
      Plan(T_100GB, BaseFeatures, <<Opt(T_NA, "Monthly")>>),
      Plan(T_Unknown, BaseFeatures, <<Opt(T_199, "Monthly")>>),
      Plan(T_BadNumber, BaseFeatures, <<Opt(T_199, "Monthly")>>) }

\* the catalog c with the "Platform" key removed from the records in drop
DropPlatformKey(c, drop) ==
    [i \in 1..Len(c) |-> IF i \in drop THEN [c[i] EXCEPT !.has = {"Plans"}] ELSE c[i]]

MalformedCatalogs ==
    UNION { { DropPlatformKey(c, drop) : drop \in SUBSET (1..Len(c)) } :
              c \in CatalogsOver(MalformedPool) }

MalformedQueries ==
    { AllAbsentQuery,
      Query(None, EmptyPriceCond, EmptyStorageCond, None),
      Query(Some("Dropbox"), EmptyPriceCond, EmptyStorageCond, None),
      Query(None, PriceCond(None, Some(5 * NumScale), None), EmptyStorageCond, None),
      Query(None, EmptyPriceCond, StorageCond(Some(1024 * NumScale), None), None) }

InitMalformed ==
    /\ pc = "start"
    /\ catalog \in MalformedCatalogs
    /\ parsed \in MalformedQueries
    /\ raw = IdleRaw
    /\ candidates = <<>>
    /\ result = NoOutcome
    /\ ev = IdleEv
    /\ hs = IdleHs

SpecMalformed == InitMalformed /\ [][Next]_vars

\* the platform record i lacks its name
PlatformLacksName(i) == "Platform" \notin catalog[i].has

\* the plan record at pos lacks its name or its pricing options
PlanLacksField(pos) ==
    "PlanName" \notin PlanAt(pos).has \/ "PricingOptions" \notin PlanAt(pos).has

\* the query traverses the plan records of every platform the platform
\* stage keeps
PlanTraversed(pos) ==
    ~PlatformLacksName(pos[1]) /\ PlatformHolds(pos)

\* C7: a catalog record that lacks a required field makes retrieve_info
\* raise on every query that traverses the record; it is never skipped and
\* never masked by a normal result.
C7_MissingFieldRaises ==
    (/\ pc = "done"
     /\ \/ \E i \in 1..Len(catalog) : PlatformLacksName(i)
        \/ \E pos \in Positions : PlanLacksField(pos) /\ PlanTraversed(pos))
    => result.status = "raise"

\* every record of the catalog holds every required field
AllFieldsPresent ==
    /\ \A i \in 1..Len(catalog) : catalog[i].has = {"Platform", "Plans"}
    /\ \A pos \in Positions : PlanAt(pos).has = PlanKeys

\* some price or storage text of the catalog is no number
SomeUnparsableNumber ==
    \E pos \in Positions :
        \/ IsNone(ExpectedGB(PlanAt(pos).Storage))
        \/ \E k \in 1..Len(PlanAt(pos).PricingOptions) :
             ExpectedPrice(PlanAt(pos).PricingOptions[k].Price) < 0

\* C8: an unparsable price or storage text never makes retrieve_info raise:
\* the option or plan is left out of the ranking and the call returns.
C8_UnparsableNeverRaises ==
    (pc = "done" /\ AllFieldsPresent /\ SomeUnparsableNumber) => result.status # "raise"

\* on complete records the only raise is float()'s ValueError
C8_OnlyValueError ==
    (pc = "done" /\ AllFieldsPresent /\ result.status = "raise") => result.err = "ValueError"

\* a storage text outside the pattern alone is treated as unknown and never
\* raises
C8_UnknownStorageReturns ==
    (/\ pc = "done" /\ AllFieldsPresent
     /\ \A pos \in Positions :
          /\ PlanAt(pos).Storage # T_BadNumber
          /\ \A k \in 1..Len(PlanAt(pos).PricingOptions) :
               ExpectedPrice(PlanAt(pos).PricingOptions[k].Price) >= 0)
    => result.status # "raise"

-----------------------------------------------------------------------------
(* semantic_parser.parse_with_llm, then retrieve_info                      *)

\* The collaborator's answer, json.loads applied: json is FALSE for a text
\* that json.loads rejects, and value is what json.loads returns otherwise.
\* A value that is no JSON object (a list, a string, a number, null) has
\* kind "other". A key that is missing from the object and a key that is
\* null read the same through parsed.get for Platform and Feature.
RawText(v) == [json |-> TRUE, value |-> v]

NotJson == [json |-> FALSE, value |-> AllAbsentQuery]

NullCond == [tag |-> "null", empty |-> TRUE, min |-> None, max |-> None]

NullPrice == [tag |-> "null", empty |-> TRUE, min |-> None, max |-> None, cycle |-> None]

MissingCond == [tag |-> "missing", empty |-> TRUE, min |-> None, max |-> None]

MissingPrice ==
    [tag |-> "missing", empty |-> TRUE, min |-> None, max |-> None, cycle |-> None]

\* the answers that follow the schema
SchemaPayloads ==
    { RawText(AllAbsentQuery),
      RawText(Query(Some("Dropbox"), PriceCond(None, None, None),
                    StorageCond(None, None), None)),
      RawText(Query(None, PriceCond(None, Some(5 * NumScale), Some("Monthly")),
                    StorageCond(Some(1024 * NumScale), None), None)) }

\* the answers that do not: no JSON, no object, Price or Storage null, Price
\* or Storage without its sub-fields, Price or Storage missing
MalformedPayloads ==
    { NotJson,
      RawText([AllAbsentQuery EXCEPT !.kind = "other"]),
      RawText(Query(None, NullPrice, StorageCond(None, None), None)),
      RawText(Query(None, PriceCond(None, None, None), NullCond, None)),
      RawText(Query(None, EmptyPriceCond, StorageCond(None, None), None)),
      RawText(Query(None, PriceCond(None, None, None), EmptyStorageCond, None)),
      RawText(Query(None, MissingPrice, MissingCond, None)) }

InitParse ==
    /\ pc = "llm"
    /\ catalog \in Catalogs
    /\ raw \in SchemaPayloads \cup MalformedPayloads
    /\ parsed = AllAbsentQuery
    /\ candidates = <<>>
    /\ result = NoOutcome
    /\ ev = IdleEv
    /\ hs = IdleHs

\* semantic_parser.py lines 67-75: json.loads(raw), and the all-absent
\* query when it raises
json_loads_or_fallback(r) == IF r.json THEN r.value ELSE AllAbsentQuery

\* parse_with_llm(question): the collaborator has answered raw
ParseWithLlm ==
    /\ pc = "llm"
    /\ parsed' = json_loads_or_fallback(raw)
    /\ pc' = "start"
    /\ UNCHANGED <<catalog, raw, candidates, result, ev, hs>>

NextParse == ParseWithLlm \/ Retrieve

SpecParse == InitParse /\ [][NextParse]_vars

\* C9: a malformed parser result is replaced by the all-absent query before
\* filtering, so that parse_with_llm followed by retrieve_info never raises
\* on it and returns what the all-absent query returns.
C9_MalformedDegrades ==
    (raw \in MalformedPayloads /\ pc = "done") =>
        /\ result.status # "raise"
        /\ \E r \in {retrieve_info(catalog, AllAbsentQuery)} :
             result = [status |-> r.status, err |-> r.err, res |-> r.res]

\* the substitution itself: the query handed to retrieve_info
C9_Substituted ==
    (raw \in MalformedPayloads /\ pc = "start") => parsed = AllAbsentQuery

\* what the fallback does cover: a text that is no JSON
C9_NotJsonDegrades ==
    raw = NotJson =>
        /\ pc = "start" => parsed = AllAbsentQuery
        /\ pc = "done" =>
             /\ result.status # "raise"
             /\ \E r \in {retrieve_info(catalog, AllAbsentQuery)} :
                  result = [status |-> r.status, err |-> r.err, res |-> r.res]

-----------------------------------------------------------------------------
(* evaluate_accuracy: the evaluator's pure functions                       *)
(* A dict is a sequence of <<key, value>> pairs in insertion order, the    *)
(* key a text and the value None or Some(text).                            *)

\* normalize_value(v): "" for None, else str(v).strip().lower()
normalize_value(v) == IF IsNone(v) THEN <<>> ELSE Lower(Strip(Val(v)))

\* normalize_obj(obj): {k.lower(): normalize_value(v)}; of two keys that
\* lower-case alike the later value stays
normalize_obj(obj) ==
    [k \in { Lower(obj[i][1]) : i \in 1..Len(obj) } |->
        LET last == CHOOSE i \in 1..Len(obj) :
                        /\ Lower(obj[i][1]) = k
                        /\ \A j \in 1..Len(obj) : Lower(obj[j][1]) = k => j <= i
        IN normalize_value(obj[last][2])]

\* ret.get(k, "")
GetOrEmpty(d, k) == IF k \in DOMAIN d THEN d[k] ELSE <<>>

\* list_of_norm_strings_from_objs(objs), as the set the caller makes of it
list_of_norm_strings_from_objs(objs) ==
    UNION { { normalize_obj(objs[i])[k] : k \in DOMAIN normalize_obj(objs[i]) } :
              i \in 1..Len(objs) }

\* a faulty variant of ValueFound: the values must be equal
ValueFoundExact(v, ret, k) == Len(v) = 0 \/ v = GetOrEmpty(ret, k)

\* line 94: not (v and v not in ret.get(k, ""))
ValueFound(v, ret, k) == Len(v) = 0 \/ IsSubstring(v, GetOrEmpty(ret, k))

\* lines 92-96: the loop over exp.items(), in the order keys
RECURSIVE RecordOk(_, _, _)
RecordOk(exp, keys, ret) ==
    IF Len(keys) = 0 THEN TRUE
    ELSE IF ~ValueFound(exp[keys[1]], ret, keys[1]) THEN FALSE
    ELSE RecordOk(exp, Tail(keys), ret)

\* the keys of a normalized dict in first-insertion order
RECURSIVE KeyOrder(_, _)
KeyOrder(obj, seen) ==
    IF Len(obj) = 0 THEN <<>>
    ELSE LET k == Lower(obj[1][1])
         IN IF k \in seen THEN KeyOrder(Tail(obj), seen)
            ELSE <<k>> \o KeyOrder(Tail(obj), seen \cup {k})

\* lines 91-99: the loop over norm_retrieved, left at the first match
RECURSIVE AnyMatches(_, _, _)
AnyMatches(exp, keys, rets) ==
    IF Len(rets) = 0 THEN FALSE
    ELSE IF RecordOk(exp, keys, rets[1]) THEN TRUE
    ELSE AnyMatches(exp, keys, Tail(rets))

\* lines 89-103: the loop over norm_expected, left at the first record
\* without a match
RECURSIVE AllMatched(_, _)
AllMatched(exps, rets) ==
    IF Len(exps) = 0 THEN TRUE
    ELSE IF ~AnyMatches(normalize_obj(exps[1]), KeyOrder(exps[1], {}), rets) THEN FALSE
    ELSE AllMatched(Tail(exps), rets)

\* retrieved_matches_expected(expected_list, retrieved), retrieved a list of
\* dicts
retrieved_matches_expected(expected_list, retrieved_list) ==
    IF Len(expected_list) = 0 /\ Len(retrieved_list) = 0 THEN TRUE
    ELSE IF Len(expected_list) = 0 \/ Len(retrieved_list) = 0 THEN FALSE
    ELSE AllMatched(expected_list,
                    [i \in 1..Len(retrieved_list) |-> normalize_obj(retrieved_list[i])])

\* a regex word character (\w) of the lower-cased text
IsWord(c) == IsDigit(c) \/ c = "_" \/ (\E i \in 1..26 : LowerAlpha[i] = c \/ UpperAlpha[i] = c)

\* \b between s[k] and s[k+1] (k = 0: the start, k = Len(s): the end)
BoundaryAt(s, k) ==
    LET left == k >= 1 /\ k <= Len(s) /\ IsWord(s[k])
        right == k + 1 >= 1 /\ k + 1 <= Len(s) /\ IsWord(s[k + 1])
    IN left # right

\* the number of digits from s[i] on
RECURSIVE DigitRun(_, _)
DigitRun(s, i) ==
    IF i >= 1 /\ i <= Len(s) /\ IsDigit(s[i]) THEN 1 + DigitRun(s, i + 1) ELSE 0

\* the number of whitespace characters from s[i] on
RECURSIVE SpaceRun(_, _)
SpaceRun(s, i) ==
    IF i >= 1 /\ i <= Len(s) /\ IsSpace(s[i]) THEN 1 + SpaceRun(s, i + 1) ELSE 0

\* the class [a-z0-9\-_]
InTokenClass(c) ==
    IsDigit(c) \/ c = "-" \/ c = "_" \/ (\E i \in 1..26 : LowerAlpha[i] = c)

RECURSIVE ClassRun(_, _)
ClassRun(s, i) ==
    IF i >= 1 /\ i <= Len(s) /\ InTokenClass(s[i]) THEN 1 + ClassRun(s, i + 1) ELSE 0

CharAt(s, i) == IF i >= 1 /\ i <= Len(s) THEN s[i] ELSE ""

\* (\.\d+)? at s[a]: the length of the group, 0 when it does not take part
DecimalLen(s, a) ==
    IF CharAt(s, a) = "." /\ DigitRun(s, a + 1) >= 1 THEN 1 + DigitRun(s, a + 1) ELSE 0

\* the decimals group of an amount whose digits end before s[a]
DecimalsAt(s, a) == Slice(s, a, a + DecimalLen(s, a) - 1)

\* the first digit of the amount after the "$" at s[j]
AmountStart(s, j) == j + 1 + SpaceRun(s, j + 1)

\* line 112: re.findall(r"\$\s*\d+(\.\d+)?", text) returns group 1 of every
\* match: the decimals, or "" when the amount has none
CurrencyTokens(s) ==
    { DecimalsAt(s, AmountStart(s, i) + DigitRun(s, AmountStart(s, i))) :
        i \in { j \in 1..Len(s) : s[j] = "$" /\ DigitRun(s, AmountStart(s, j)) >= 1 } }

\* line 115: the end of the match of \d+(\.\d+)?\s*(tb|gb) at s[i], 0 for
\* no match
SizeUnitAt(s, u) ==
    IF Slice(s, u, u + 1) \in {<<"t","b">>, <<"g","b">>} THEN u + 1 ELSE 0

SizeAfterDecimals(s, b) == SizeUnitAt(s, b + SpaceRun(s, b))

SizeAfterDigits(s, a) == SizeAfterDecimals(s, a + DecimalLen(s, a))

SizeMatchEnd(s, i) ==
    IF DigitRun(s, i) >= 1 THEN SizeAfterDigits(s, i + DigitRun(s, i)) ELSE 0

\* line 118: the end of the match of \b\d+(\.\d+)?\b at s[i], 0 for no
\* match; the decimals are given back when no \b follows them
NumberEnd(s, a, g) ==
    IF g > 0 /\ BoundaryAt(s, a + g - 1) THEN a + g - 1
    ELSE IF BoundaryAt(s, a - 1) THEN a - 1
    ELSE 0

NumberAfterDigits(s, a) == NumberEnd(s, a, DecimalLen(s, a))

NumberMatchEnd(s, i) ==
    IF ~(DigitRun(s, i) >= 1 /\ BoundaryAt(s, i - 1)) THEN 0
    ELSE NumberAfterDigits(s, i + DigitRun(s, i))

MinWordLen == 3

\* line 121: the end of the match of \b[a-z0-9\-_]{3,}\b at s[i], 0 for no
\* match; the longest run that ends at a \b
LongestEnd(ends) == IF ends = {} THEN 0 ELSE CHOOSE e \in ends : \A x \in ends : x <= e

WordMatchEnd(s, i) ==
    IF ClassRun(s, i) >= 1 /\ BoundaryAt(s, i - 1)
    THEN LongestEnd({ e \in (i + MinWordLen - 1)..(i + ClassRun(s, i) - 1) : BoundaryAt(s, e) })
    ELSE 0

MatchEnd(pattern, s, i) ==
    CASE pattern = "size" -> SizeMatchEnd(s, i)
      [] pattern = "number" -> NumberMatchEnd(s, i)
      [] pattern = "word" -> WordMatchEnd(s, i)

\* re.finditer / re.findall: the matches of a pattern from s[i] on, leftmost
\* first and not overlapping
RECURSIVE Matches(_, _, _)
MatchesFrom(pattern, s, i, e) ==
    IF e = 0 THEN Matches(pattern, s, i + 1)
    ELSE {Slice(s, i, e)} \cup Matches(pattern, s, e + 1)

Matches(pattern, s, i) ==
    IF i > Len(s) THEN {} ELSE MatchesFrom(pattern, s, i, MatchEnd(pattern, s, i))

TokensOf(text) ==
    { Strip(t) :
        t \in CurrencyTokens(text)
              \cup Matches("size", text, 1)
              \cup Matches("number", text, 1)
              \cup Matches("word", text, 1) }

\* extract_factual_tokens(answer), as a set
extract_factual_tokens(answer) == TokensOf(Lower(answer))

StopList == { <<"p","l","a","n">>, <<"m","o","n","t","h","l","y">>, <<"p","r","i","c","e">> }

T_NoMatching == <<"n","o"," ","m","a","t","c","h","i","n","g">>

T_NotFound == <<"n","o","t"," ","f","o","u","n","d">>

\* lines 137-143: nothing was retrieved
DetectOnEmpty(low, factual_tokens) ==
    IF IsSubstring(T_NoMatching, low) \/ IsSubstring(T_NotFound, low)
       \/ Len(Strip(low)) = 0
    THEN FALSE
    ELSE factual_tokens # {}

\* lines 145-155: a token outside the stoplist that no retrieved value
\* contains
DetectOnTokens(retrieved_tokens, factual_tokens) ==
    \E t \in factual_tokens \ StopList :
        \A rv \in retrieved_tokens : ~IsSubstring(t, rv)

\* detect_hallucination_from_answer(retrieved_objs, answer), retrieved_objs
\* a list of dicts
detect_hallucination_from_answer(retrieved_objs, answer) ==
    IF Len(retrieved_objs) = 0
    THEN DetectOnEmpty(Lower(answer), extract_factual_tokens(answer))
    ELSE DetectOnTokens(list_of_norm_strings_from_objs(retrieved_objs),
                        extract_factual_tokens(answer))

-----------------------------------------------------------------------------
(* The evaluator on its own: expected records, retrieved records, answers  *)

MaxRecords == 2     \* records in an expected or a retrieved list

K_Platform == <<"P","l","a","t","f","o","r","m">>

K_platform == <<"p","l","a","t","f","o","r","m">>

K_Price == <<"P","r","i","c","e">>

K_PlanName == <<"P","l","a","n","N","a","m","e">>

V_Dropbox == <<"D","r","o","p","b","o","x">>

V_Plus == <<"P","l","u","s">>

V_Google == <<"G","o","o","g","l","e"," ","D","r","i","v","e">>

R_DropboxPrice == << <<K_Platform, Some(V_Dropbox)>>, <<K_Price, Some(T_999)>> >>

R_DropboxPlus ==
    << <<K_Platform, Some(V_Dropbox)>>, <<K_PlanName, Some(V_Plus)>>,
       <<K_Price, Some(T_999)>> >>

R_GoogleNoPrice == << <<K_platform, Some(V_Google)>>, <<K_Price, None>> >>

RetrievedPool == { R_DropboxPrice, R_DropboxPlus, R_GoogleNoPrice }

E_Platform == << <<K_Platform, Some(<<"d","r","o","p","b","o","x">>)>> >>

E_Substrings == << <<K_platform, Some(<<" ","D","R","O","P"," ">>)>>, <<K_Price, Some(<<"9",".","9">>)>> >>

E_PlanName == << <<K_PlanName, Some(V_Plus)>> >>

E_NoConstraint == << <<K_Platform, None>>, <<K_Price, Some(<<>>)>> >>

E_OtherPrice == << <<K_Price, Some(<<"4","9",".","9","9">>)>> >>

ExpectedPool == { E_Platform, E_Substrings, E_PlanName, E_NoConstraint, E_OtherPrice }

A_Supported == <<"D","r","o","p","b","o","x"," ","P","l","u","s"," ","c","o","s","t","s"," ","$","9",".","9","9","/","m","o","n","t","h">>

A_Unsupported == <<"D","r","o","p","b","o","x"," ","c","o","s","t","s"," ","$","4","9",".","9","9","/","m","o","n","t","h">>

A_NoMatch == <<"N","o"," ","m","a","t","c","h","i","n","g"," ","d","a","t","a"," ","f","o","u","n","d",".">>

A_Storage == <<"S","t","o","r","a","g","e"," ","i","s"," ","2","T","B"," ","f","o","r"," ","$","9",".","9","9","/","m","o","n","t","h">>

A_Echo == <<"d","r","o","p","b","o","x"," ","p","l","a","n"," ","p","r","i","c","e"," ","$","9",".","9","9">>

Answers == { <<>>, A_Supported, A_Unsupported, A_NoMatch, A_Storage, A_Echo }

ListsOver(pool, n) == UNION { [1..k -> pool] : k \in 0..n }

\* the inputs of a comparison (no answer) and those of a detection (no
\* expected record)
EvalInputs ==
    { [IdleEv EXCEPT !.expected = e, !.retrieved = r] :
        e \in ListsOver(ExpectedPool, MaxRecords), r \in ListsOver(RetrievedPool, MaxRecords) }
    \cup
    { [IdleEv EXCEPT !.retrieved = r, !.answer = a] :
        r \in ListsOver(RetrievedPool, MaxRecords), a \in Answers }

InitEvaluator ==
    /\ pc = "eval"
    /\ catalog = <<>>
    /\ raw = IdleRaw
    /\ parsed = AllAbsentQuery
    /\ candidates = <<>>
    /\ result = NoOutcome
    /\ ev \in EvalInputs
    /\ hs = IdleHs

\* retrieved_matches_expected(expected, retrieved)
MatchExpected ==
    /\ pc = "eval"
    /\ ~ev.done_match
    /\ ev' = [ev EXCEPT !.done_match = TRUE,
                        !.matches = retrieved_matches_expected(ev.expected, ev.retrieved)]
    /\ UNCHANGED <<pc, catalog, raw, parsed, candidates, result, hs>>

\* detect_hallucination_from_answer(retrieved, answer)
DetectHallucination ==
    /\ pc = "eval"
    /\ ~ev.done_detect
    /\ ev' = [ev EXCEPT !.done_detect = TRUE,
                        !.hallucinated =
                            detect_hallucination_from_answer(ev.retrieved, ev.answer)]
    /\ UNCHANGED <<pc, catalog, raw, parsed, candidates, result, hs>>

NextEvaluator == MatchExpected \/ DetectHallucination

SpecEvaluator == InitEvaluator /\ [][NextEvaluator]_vars

\* C4: with retrieved = [{Platform: "Dropbox", Price: "9.99"}] the answer
\* "Dropbox Plus costs $9.99/month" is no hallucination and the answer
\* "Dropbox costs $49.99/month" is one.
C4_ScenarioVerdicts ==
    (ev.done_detect /\ ev.retrieved = <<R_DropboxPrice>>) =>
        /\ ev.answer = A_Supported => ~ev.hallucinated
        /\ ev.answer = A_Unsupported => ev.hallucinated

\* the half of C4 the code agrees with
C4_UnsupportedFlagged ==
    (ev.done_detect /\ ev.retrieved = <<R_DropboxPrice>> /\ ev.answer = A_Unsupported)
        => ev.hallucinated

\* the normalized pairs of a record: the lower-cased keys, each with the
\* normalized value of its last occurrence
NormPairs(rec) ==
    { <<Lower(rec[i][1]), IF IsNone(rec[i][2]) THEN <<>> ELSE Lower(Strip(rec[i][2][1]))>> :
        i \in { i \in 1..Len(rec) :
                  \A j \in (i + 1)..Len(rec) : Lower(rec[j][1]) # Lower(rec[i][1]) } }

\* every non-empty expected value occurs in the retrieved record's value
\* under the same key
Covers(ret, exp) ==
    \A pe \in NormPairs(exp) :
        Len(pe[2]) > 0 =>
            \E pr \in NormPairs(ret) : pr[1] = pe[1] /\ IsSubstring(pe[2], pr[2])

\* C5: retrieved_matches_expected is true of two empty lists, false when
\* exactly one is empty, and otherwise true exactly when every expected
\* record is covered by some retrieved record.
C5_MatchesIffCovered ==
    ev.done_match =>
        ev.matches =
            IF Len(ev.expected) = 0 /\ Len(ev.retrieved) = 0 THEN TRUE
            ELSE IF Len(ev.expected) = 0 \/ Len(ev.retrieved) = 0 THEN FALSE
            ELSE \A i \in 1..Len(ev.expected) :
                     \E j \in 1..Len(ev.retrieved) : Covers(ev.retrieved[j], ev.expected[i])

\* C5's case: both lists hold records, an expected value matches as a
\* substring after normalization, an expected record has only empty values
C5_Witness ==
    /\ ev.done_match /\ ev.matches
    /\ ev.expected = <<E_Substrings, E_NoConstraint>>
    /\ ev.retrieved = <<R_GoogleNoPrice, R_DropboxPrice>>

-----------------------------------------------------------------------------
(* evaluate_accuracy: str(), completeness_fraction and the result dict     *)

RECURSIVE DigitsOf(_)
DigitsOf(n) ==
    IF n < 10 THEN <<Digits[n + 1]>> ELSE DigitsOf(n \div 10) \o <<Digits[(n % 10) + 1]>>

\* str(float) of a fixed-point value: "1.99", "9.9", "10.0"
FloatText(val) ==
    LET frac == val % NumScale
    IN DigitsOf(val \div NumScale) \o <<".">> \o
       (IF frac % 10 = 0 THEN <<Digits[(frac \div 10) + 1]>>
        ELSE <<Digits[(frac \div 10) + 1], Digits[(frac % 10) + 1]>>)

\* the characters of the names the catalog and the retriever use
TextOf(name) ==
    CASE name = "GoogleDrive" -> <<"G","o","o","g","l","e","D","r","i","v","e">>
      [] name = "Dropbox" -> V_Dropbox
      [] name = "Plan A" -> <<"P","l","a","n"," ","A">>
      [] name = "Plan B" -> <<"P","l","a","n"," ","B">>
      [] name = "Plan C" -> <<"P","l","a","n"," ","C">>
      [] name = "Plan D" -> <<"P","l","a","n"," ","D">>
      [] name = "Monthly" -> <<"M","o","n","t","h","l","y">>
      [] name = "Annual" -> <<"A","n","n","u","a","l">>

\* json_retriever.py lines 96-103: the result dict, as the evaluator reads it
ResultDict(res) ==
    << <<K_Platform, Some(TextOf(res.Platform))>>,
       <<K_PlanName, Some(TextOf(res.PlanName))>>,
       <<K_Price, Some(FloatText(res.Price))>>,
       <<<<"P","l","a","n","T","y","p","e">>, Some(TextOf(res.PlanType))>>,
       <<<<"S","t","o","r","a","g","e">>, Some(res.Storage)>>,
       <<<<"F","e","a","t","u","r","e","M","a","t","c","h">>, res.FeatureMatch>> >>

\* str(v): "None" for None
StrOf(v) == IF IsNone(v) THEN <<"N","o","n","e">> ELSE Val(v)

\* round(a / b, digits) on fixed-point numerators: the nearest integer to
\* a / b (no tie arises within the bounds)
RoundDiv(a, b) == (2 * a + b) \div (2 * b)

\* the (record, field) positions of retrieved_objs
FieldPositions(retrieved_objs) ==
    UNION { { <<i, j>> : j \in 1..Len(retrieved_objs[i]) } : i \in 1..Len(retrieved_objs) }

MatchedFields(retrieved_objs, ans, pairs) ==
    { pr \in pairs : IsSubstring(Lower(StrOf(retrieved_objs[pr[1]][pr[2]][2])), ans) }

FractionOf(retrieved_objs, ans, pairs) ==
    IF pairs = {} THEN 100
    ELSE RoundDiv(100 * Cardinality(MatchedFields(retrieved_objs, ans, pairs)),
                  Cardinality(pairs))

\* completeness_fraction(retrieved_objs, answer) * 100
completeness_fraction(retrieved_objs, answer) ==
    IF Len(retrieved_objs) = 0 THEN 100
    ELSE FractionOf(retrieved_objs, Lower(answer), FieldPositions(retrieved_objs))

-----------------------------------------------------------------------------
(* evaluate_accuracy.main: the evaluation loop                             *)

MaxQuestions == 2   \* questions in questions.csv

Trials == 3

AllQuestions == <<"Q1", "Q2", "Q3", "Q4">>

\* expected.json: Q1 has one expected record, the other questions have none
\* (expected_map.get(q, []))
ExpectedOf(q) ==
    IF q = "Q1"
    THEN << << <<K_Platform, Some(<<"G","o","o","g","l","e","D","r","i","v","e">>)>>, <<K_Price, Some(T_199)>> >> >>
    ELSE <<>>

\* the catalog of the run: the 100 GB plan at 1.99 and the 2 TB plan at 9.99
HarnessCatalog ==
    MkCatalog(<< <<Plan(T_100GB, BaseFeatures, <<Opt(T_199, "Monthly")>>)>>,
                 <<Plan(T_2TB, BaseFeatures, <<Opt(T_999, "Monthly")>>)>> >>)

\* what the parser collaborator may return when it does not fail: a query
\* that retrieve_info answers and one on which it raises (Price null)
ParseOutputs ==
    { AllAbsentQuery, Query(None, NullPrice, StorageCond(None, None), None) }

\* the sentinel of a failed call
Failed == None

\* what the generators may return when they do not fail
LlmAnswers == { A_Unsupported }

RagAnswers == { <<"G","o","o","g","l","e","D","r","i","v","e"," ","P","l","a","n"," ","A"," ","c","o","s","t","s"," ","1",".","9","9"," ","M","o","n","t","h","l","y">> }

\* the measured time of a call that returns, in ticks
Tick == 1

ZeroStats ==
    [correct_retrieval |-> 0, retrieval_success |-> 0, parser_consistency |-> 0,
     retrieval_consistency |-> 0, hallucination_llm_only |-> 0, hallucination_rag |-> 0,
     completeness_llm_only |-> 0, completeness_rag |-> 0]

NoSummary == [total_questions |-> -1]

\* the loop's locals at the top of an iteration (lines 255-258)
FreshLocals(h) ==
    [h EXCEPT !.trial = 1, !.p = Failed, !.parses = <<>>, !.retrieves = <<>>,
              !.p_times = <<>>, !.r_times = <<>>,
              !.llm_ans = Failed, !.llm_lat = 0, !.rag_ans = Failed, !.rag_lat = 0]

\* lines 226-246
HarnessStart(qs) ==
    FreshLocals(
        [phase |-> "next", questions |-> qs, total |-> Len(qs), qi |-> 0,
         trial |-> 1, p |-> Failed, parses |-> <<>>, retrieves |-> <<>>,
         p_times |-> <<>>, r_times |-> <<>>,
         llm_ans |-> Failed, llm_lat |-> 0, rag_ans |-> Failed, rag_lat |-> 0,
         stats |-> ZeroStats,
         parse_lat |-> <<>>, retr_lat |-> <<>>, gen_llm_lat |-> <<>>, gen_rag_lat |-> <<>>,
         results |-> <<>>, summary |-> NoSummary, fault |-> ""])

InitHarness ==
    /\ pc = "main"
    /\ catalog = HarnessCatalog
    /\ raw = IdleRaw
    /\ parsed = AllAbsentQuery
    /\ candidates = <<>>
    /\ result = NoOutcome
    /\ ev = IdleEv
    /\ hs \in { HarnessStart(SubSeq(AllQuestions, 1, n)) : n \in 0..MaxQuestions }

HarnessUnchanged == UNCHANGED <<pc, catalog, raw, parsed, candidates, result, ev>>

\* line 248: the for statement takes the next question, or leaves the loop
NextQuestion ==
    /\ pc = "main" /\ hs.phase = "next"
    /\ hs' = IF hs.qi < Len(hs.questions)
             THEN [FreshLocals(hs) EXCEPT !.qi = hs.qi + 1, !.phase = "parse"]
             ELSE [hs EXCEPT !.phase = "summary"]
    /\ HarnessUnchanged

\* lines 261-263 with safe_parse: the call returns out (a non-empty dict) or
\* raises; parses gets json.dumps(p, sort_keys=True), which is equal for
\* equal values only, or None
SafeParse ==
    /\ pc = "main" /\ hs.phase = "parse"
    /\ \E out \in { Some(o) : o \in ParseOutputs } \cup { Failed } :
         hs' = [hs EXCEPT !.p = out,
                          !.parses = Append(@, out),
                          !.p_times = Append(@, IF out = Failed THEN 0 ELSE Tick),
                          !.phase = "retrieve"]
    /\ HarnessUnchanged

safe_outcome(r) ==
    IF r.status = "raise" THEN [list |-> <<>>, time |-> 0]
    ELSE IF r.status = "none" THEN [list |-> <<>>, time |-> Tick]
    ELSE [list |-> <<ResultDict(r.res)>>, time |-> Tick]

\* safe_retrieve(parsed): (out, elapsed), or (None, 0) when retrieve_info
\* raises; out is a list of dicts as lines 270-275 make it
safe_retrieve(data, q) == safe_outcome(retrieve_info(data, q))

\* What main computes from its collaborators' outputs, tabulated once over
\* the inputs a run of the loop can pass (the catalog of the run, the parser's
\* outputs, the expected records, the generators' answers or ""); an input
\* outside a table is computed directly.
RetrieveByQuery == [q \in ParseOutputs |-> safe_retrieve(HarnessCatalog, q)]

RetrievedLists == { RetrieveByQuery[q].list : q \in ParseOutputs } \cup { <<>> }

ExpectedLists == { ExpectedOf(AllQuestions[i]) : i \in 1..Len(AllQuestions) }

AnswerTexts == LlmAnswers \cup RagAnswers \cup { <<>> }

MatchByInput ==
    [e \in ExpectedLists, r \in RetrievedLists |-> retrieved_matches_expected(e, r)]

HallucinationByInput ==
    [r \in RetrievedLists, a \in AnswerTexts |-> detect_hallucination_from_answer(r, a)]

CompletenessByInput ==
    [r \in RetrievedLists, a \in AnswerTexts |-> completeness_fraction(r, a)]

\* safe_retrieve(parsed) on the loaded data
safe_retrieve_at(data, q) ==
    IF data = HarnessCatalog /\ q \in ParseOutputs THEN RetrieveByQuery[q]
    ELSE safe_retrieve(data, q)

\* retrieved_matches_expected(expected, rep_retrieved), line 290
matches_at(expected, rep) ==
    IF expected \in ExpectedLists /\ rep \in RetrievedLists
    THEN MatchByInput[expected, rep]
    ELSE retrieved_matches_expected(expected, rep)

\* detect_hallucination_from_answer(rep_retrieved, answer), lines 303-306
hallucination_at(rep, answer) ==
    IF rep \in RetrievedLists /\ answer \in AnswerTexts
    THEN HallucinationByInput[rep, answer]
    ELSE detect_hallucination_from_answer(rep, answer)

\* completeness_fraction(rep_retrieved, answer), lines 309-310
completeness_at(rep, answer) ==
    IF rep \in RetrievedLists /\ answer \in AnswerTexts
    THEN CompletenessByInput[rep, answer]
    ELSE completeness_fraction(rep, answer)

\* lines 265-276, and the end of the trial
SafeRetrieve ==
    /\ pc = "main" /\ hs.phase = "retrieve"
    /\ \E r \in { IF hs.p = Failed THEN [list |-> <<>>, time |-> 0]
                  ELSE safe_retrieve_at(catalog, Val(hs.p)) } :
         hs' = [hs EXCEPT !.retrieves = Append(@, r.list),
                          !.r_times = Append(@, r.time),
                          !.trial = @ + 1,
                          !.phase = IF hs.trial < Trials THEN "parse" ELSE "score"]
    /\ HarnessUnchanged

Bump(b) == IF b THEN 1 ELSE 0

\* lines 279-291: the consistency checks and the retrieval counters
Score ==
    /\ pc = "main" /\ hs.phase = "score"
    /\ LET rep == hs.retrieves[1]
           expected == ExpectedOf(hs.questions[hs.qi])
       IN hs' = [hs EXCEPT
             !.stats.parser_consistency =
                 @ + Bump(hs.parses[1] = hs.parses[2] /\ hs.parses[2] = hs.parses[3]),
             !.stats.retrieval_consistency =
                 @ + Bump(hs.retrieves[1] = hs.retrieves[2]
                          /\ hs.retrieves[2] = hs.retrieves[3]),
             !.stats.retrieval_success = @ + Bump(Len(rep) > 0),
             !.stats.correct_retrieval =
                 @ + Bump(matches_at(expected, rep)),
             !.phase = "llm_only"]
    /\ HarnessUnchanged

\* line 294 with safe_llm_only
SafeLlmOnly ==
    /\ pc = "main" /\ hs.phase = "llm_only"
    /\ \E out \in { Some(a) : a \in LlmAnswers } \cup { Failed } :
         hs' = [hs EXCEPT !.llm_ans = out,
                          !.llm_lat = IF out = Failed THEN 0 ELSE Tick,
                          !.phase = "rag"]
    /\ HarnessUnchanged

\* a faulty variant of SafeRag: the call is made without the try/except of
\* safe_rag, so a failure leaves main
SafeRagUnguarded ==
    /\ pc = "main" /\ hs.phase = "rag"
    /\ \E out \in { Some(a) : a \in RagAnswers } \cup { Failed } :
         hs' = IF out = Failed
               THEN [hs EXCEPT !.phase = "fault", !.fault = "Exception"]
               ELSE [hs EXCEPT !.rag_ans = out, !.rag_lat = Tick, !.phase = "record"]
    /\ HarnessUnchanged

\* line 295 with safe_rag
SafeRag ==
    /\ pc = "main" /\ hs.phase = "rag"
    /\ \E out \in { Some(a) : a \in RagAnswers } \cup { Failed } :
         hs' = [hs EXCEPT !.rag_ans = out,
                          !.rag_lat = IF out = Failed THEN 0 ELSE Tick,
                          !.phase = "record"]
    /\ HarnessUnchanged

\* llm_ans or ""
OrEmpty(ans) == IF ans = Failed THEN <<>> ELSE Val(ans)

\* the state after lines 297-318, rep being rep_retrieved and llm, rag the
\* answers or ""
Recorded(h, rep, llm, rag) ==
    [h EXCEPT
       !.gen_llm_lat = Append(@, h.llm_lat),
       !.gen_rag_lat = Append(@, h.rag_lat),
       !.parse_lat = @ \o h.p_times,
       !.retr_lat = @ \o h.r_times,
       !.stats.hallucination_llm_only = @ + Bump(hallucination_at(rep, llm)),
       !.stats.hallucination_rag = @ + Bump(hallucination_at(rep, rag)),
       !.stats.completeness_llm_only = @ + completeness_at(rep, llm),
       !.stats.completeness_rag = @ + completeness_at(rep, rag),
       !.results = Append(@, [question |-> h.questions[h.qi],
                              expected |-> ExpectedOf(h.questions[h.qi]),
                              retrieved |-> rep,
                              llm_only |-> h.llm_ans,
                              rag |-> h.rag_ans]),
       !.phase = "next"]

\* lines 297-318: the latencies, the hallucination and completeness
\* counters, and the result row
Record ==
    /\ pc = "main" /\ hs.phase = "record"
    /\ hs' = Recorded(hs, hs.retrieves[1], OrEmpty(hs.llm_ans), OrEmpty(hs.rag_ans))
    /\ HarnessUnchanged

RECURSIVE SumSeq(_)
SumSeq(xs) == IF Len(xs) = 0 THEN 0 ELSE xs[1] + SumSeq(Tail(xs))

\* lines 320-334: percentages in 1/100, completeness in 1/1000, latencies
\* in 1/10000 tick
summary_of(h) ==
    [total_questions |-> h.total,
     retrieval_accuracy_percent |-> RoundDiv(10000 * h.stats.correct_retrieval, h.total),
     retrieval_success_percent |-> RoundDiv(10000 * h.stats.retrieval_success, h.total),
     parser_consistency_percent |-> RoundDiv(10000 * h.stats.parser_consistency, h.total),
     retrieval_consistency_percent |->
         RoundDiv(10000 * h.stats.retrieval_consistency, h.total),
     hallucination_rate_llm_only_percent |->
         RoundDiv(10000 * h.stats.hallucination_llm_only, h.total),
     hallucination_rate_rag_percent |->
         RoundDiv(10000 * h.stats.hallucination_rag, h.total),
     avg_completeness_llm_only |-> RoundDiv(10 * h.stats.completeness_llm_only, h.total),
     avg_completeness_rag |-> RoundDiv(10 * h.stats.completeness_rag, h.total),
     avg_parse_latency |-> RoundDiv(10000 * SumSeq(h.parse_lat), Len(h.parse_lat)),
     avg_retrieve_latency |-> RoundDiv(10000 * SumSeq(h.retr_lat), Len(h.retr_lat)),
     avg_llm_generate_latency |->
         RoundDiv(10000 * SumSeq(h.gen_llm_lat), Len(h.gen_llm_lat)),
     avg_rag_generate_latency |->
         RoundDiv(10000 * SumSeq(h.gen_rag_lat), Len(h.gen_rag_lat))]

\* lines 320-349: the summary and the reports. Line 322 divides by
\* stats["total"]: with no question it raises ZeroDivisionError and main
\* ends there.
Summarize ==
    /\ pc = "main" /\ hs.phase = "summary"
    /\ hs' = IF hs.total = 0
             THEN [hs EXCEPT !.phase = "fault", !.fault = "ZeroDivisionError"]
             ELSE [hs EXCEPT !.phase = "done", !.summary = summary_of(hs)]
    /\ HarnessUnchanged

NextHarness ==
    \/ NextQuestion
    \/ SafeParse
    \/ SafeRetrieve
    \/ Score
    \/ SafeLlmOnly
    \/ SafeRag
    \/ Record
    \/ Summarize

SpecHarness == InitHarness /\ [][NextHarness]_vars

\* the question being scored: each of its three parse trials failed
AllParsesFailed ==
    /\ pc = "main" /\ hs.phase = "score"
    /\ \A i \in 1..Trials : hs.parses[i] = Failed

\* C6: a question whose three parse trials all fail adds nothing to
\* correct_retrieval, parser_consistency and retrieval_consistency.
C6_FailedQuestionNotCounted ==
    [][AllParsesFailed =>
         /\ hs'.stats.correct_retrieval = hs.stats.correct_retrieval
         /\ hs'.stats.parser_consistency = hs.stats.parser_consistency
         /\ hs'.stats.retrieval_consistency = hs.stats.retrieval_consistency]_vars

\* C6, the latency part: a failed parse trial is recorded with zero latency,
\* no retrieval is attempted for it and its retrieval latency is zero too.
C6_FailedCallZeroLatency ==
    pc = "main" =>
      /\ \A i \in 1..Len(hs.parses) : hs.parses[i] = Failed => hs.p_times[i] = 0
      /\ \A i \in 1..Len(hs.retrieves) :
           hs.parses[i] = Failed => hs.retrieves[i] = <<>> /\ hs.r_times[i] = 0

\* C6, the latency part for the generators: a failed call is recorded with
\* zero latency.
C6_FailedAnswerZeroLatency ==
    (pc = "main" /\ hs.phase = "record") =>
      /\ hs.llm_ans = Failed => hs.llm_lat = 0
      /\ hs.rag_ans = Failed => hs.rag_lat = 0

\* C10: a run over zero questions ends with a summary whose total_questions
\* is 0, never with a fault.
C10_ZeroQuestionSummary ==
    (pc = "main" /\ hs.total = 0 /\ hs.phase \in {"done", "fault"}) =>
      (hs.phase = "done" /\ hs.summary.total_questions = 0)

\* C10, the other runs: a run over at least one question ends with its
\* summary.
C10_FaultOnlyOnZero ==
    (pc = "main" /\ hs.phase = "fault") => hs.total = 0

-----------------------------------------------------------------------------
(* The evaluation loop as a running program                                *)

\* main is one thread: its next statement is always executed, and every
\* collaborator call returns or raises
SpecHarnessFair == InitHarness /\ [][NextHarness]_vars /\ WF_vars(NextHarness)

\* the phases in which the steps of question hs.qi are under way
WorkPhases == {"parse", "retrieve", "score", "llm_only", "rag", "record"}

\* one row for each question dealt with, in input order; the question under
\* way has no row yet, and no question after it has begun
RowsFollowInput ==
    /\ hs.qi \in 0..Len(hs.questions)
    /\ Len(hs.results) = IF hs.phase \in WorkPhases THEN hs.qi - 1 ELSE hs.qi
    /\ \A i \in 1..Len(hs.results) : hs.results[i].question = hs.questions[i]
    /\ hs.phase \in {"summary", "done", "fault"} => Len(hs.results) = Len(hs.questions)

\* the three trials of the question under way, one after the other and all
\* before its answers
TrialsInSequence ==
    /\ hs.phase = "parse" =>
         hs.trial \in 1..Trials /\ Len(hs.parses) = hs.trial - 1
                                /\ Len(hs.retrieves) = hs.trial - 1
    /\ hs.phase = "retrieve" =>
         hs.trial \in 1..Trials /\ Len(hs.parses) = hs.trial
                                /\ Len(hs.retrieves) = hs.trial - 1
    /\ hs.phase \in {"score", "llm_only", "rag", "record"} =>
         Len(hs.parses) = Trials /\ Len(hs.retrieves) = Trials

\* the order of the steps: trials, then the free-form answer, then the
\* grounded answer, then the row; the next question begins only from there
StepOrder ==
    /\ <<hs.phase, hs'.phase>> \in
         { <<"next", "parse">>, <<"next", "summary">>, <<"parse", "retrieve">>,
           <<"retrieve", "parse">>, <<"retrieve", "score">>, <<"score", "llm_only">>,
           <<"llm_only", "rag">>, <<"rag", "record">>, <<"record", "next">>,
           <<"summary", "done">>, <<"summary", "fault">> }
    /\ hs'.qi = IF hs.phase = "next" /\ hs'.phase = "parse" THEN hs.qi + 1 ELSE hs.qi
    /\ hs'.questions = hs.questions
    /\ Len(hs'.results) = Len(hs.results) + (IF hs.phase = "record" THEN 1 ELSE 0)
    /\ SubSeq(hs'.results, 1, Len(hs.results)) = hs.results

\* C11: whatever calls fail, every question eventually yields exactly one
\* result row, rows appear in input order, and all steps of one question
\* (three sequential trials, the free-form answer, the grounded answer, the
\* row) complete before any step of the next question begins.
C11_EveryQuestionOneRowInOrder ==
    /\ [](RowsFollowInput /\ TrialsInSequence)
    /\ [][StepOrder]_vars
    /\ <>(Len(hs.results) = Len(hs.questions))

\* a finished run over two questions in which a parse trial, the free-form
\* answer and the grounded answer failed, with its two rows in input order
C11_Witness ==
    /\ pc = "main" /\ hs.phase = "done"
    /\ Len(hs.questions) = 2 /\ Len(hs.results) = 2
    /\ hs.results[1].question = hs.questions[1]
    /\ hs.results[2].question = hs.questions[2]
    /\ hs.parse_lat[1] = 0
    /\ hs.results[1].llm_only = Failed
    /\ hs.results[2].rag = Failed
    /\ hs.results[2].retrieved # <<>>

====
